---- MODULE Spec2Model ----
(***************************************************************************)
(* Model of rust_etl_pipeline/src/main.rs: a sequential crawl of a         *)
(* paginated grants listing.  Every record node of a page is gated on its  *)
(* displayed date (chrono parse, compare with now - 120 days), kept        *)
(* records are extracted into nine fields and appended to a CSV writer.    *)
(*                                                                         *)
(* Every text (the date text, the text nodes and the markup the fields are *)
(* taken from) is a sequence of one-character strings.                     *)
(***************************************************************************)
EXTENDS Integers, Sequences, FiniteSets, TLC

(***************************************************************************)
(* Bounds of the model.                                                    *)
(***************************************************************************)
\* The most record nodes one page holds.
MaxNodes == 2
\* The most record nodes the listing serves over all its pages.
MaxRecords == 3

(***************************************************************************)
(* Characters and strings.                                                 *)
(***************************************************************************)
Digits == <<"0", "1", "2", "3", "4", "5", "6", "7", "8", "9">>

IsDigit(c) == \E k \in 1..10 : Digits[k] = c

DigitVal(c) == (CHOOSE k \in 1..10 : Digits[k] = c) - 1

\* char::is_whitespace: the characters with the Unicode White_Space property.
\* A character is a one-character string; U+000B, U+0085 and U+00A0 stand in
\* their strings as themselves, and a character beyond U+00FF, which a string
\* cannot hold, is written by its code point.
WhiteSpace ==
    { "\t", "\n", "", "\f", "\r", " ", "", " ",
      "U+1680", "U+2000", "U+2001", "U+2002", "U+2003", "U+2004", "U+2005",
      "U+2006", "U+2007", "U+2008", "U+2009", "U+200A", "U+2028", "U+2029",
      "U+202F", "U+205F", "U+3000" }

IsSpace(c) == c \in WhiteSpace

\* str::trim: drop leading and trailing whitespace.
RECURSIVE TrimStart(_)
TrimStart(s) ==
    IF s # <<>> /\ IsSpace(Head(s)) THEN TrimStart(Tail(s)) ELSE s

RECURSIVE TrimEnd(_)
TrimEnd(s) ==
    IF s # <<>> /\ IsSpace(s[Len(s)]) THEN TrimEnd(SubSeq(s, 1, Len(s) - 1)) ELSE s

Trim(s) == TrimEnd(TrimStart(s))

Upper ==
    << "A", "B", "C", "D", "E", "F", "G", "H", "I", "J", "K", "L", "M",
       "N", "O", "P", "Q", "R", "S", "T", "U", "V", "W", "X", "Y", "Z" >>

LowerOf ==
    << "a", "b", "c", "d", "e", "f", "g", "h", "i", "j", "k", "l", "m",
       "n", "o", "p", "q", "r", "s", "t", "u", "v", "w", "x", "y", "z" >>

\* u8::to_ascii_lowercase
ToLower(c) ==
    IF \E k \in 1..Len(Upper) : Upper[k] = c
    THEN LowerOf[CHOOSE k \in 1..Len(Upper) : Upper[k] = c]
    ELSE c

(***************************************************************************)
(* chrono: NaiveDate::parse_from_str(text, "%b %e, %Y") and the            *)
(* "%b %d, %Y" fallback.  The items of both formats are: short month name, *)
(* space, day (numeric, at most 2 digits), literal ",", space, year        *)
(* (numeric, at most 4 digits unless signed).  When parsing, a numeric     *)
(* item skips leading whitespace whatever its padding, and a space item    *)
(* matches any run of whitespace.                                          *)
(***************************************************************************)
MonthNames ==
    << <<"j", "a", "n">>, <<"f", "e", "b">>, <<"m", "a", "r">>, <<"a", "p", "r">>,
       <<"m", "a", "y">>, <<"j", "u", "n">>, <<"j", "u", "l">>, <<"a", "u", "g">>,
       <<"s", "e", "p">>, <<"o", "c", "t">>, <<"n", "o", "v">>, <<"d", "e", "c">> >>

Err == [ok |-> FALSE, val |-> 0, rest |-> <<>>]

\* scan::short_month0: the first three characters, case-insensitively.
ShortMonth0(s) ==
    IF Len(s) < 3 THEN Err
    ELSE LET key == <<ToLower(s[1]), ToLower(s[2]), ToLower(s[3])>>
         IN  IF \E m \in 1..12 : MonthNames[m] = key
             THEN [ok |-> TRUE,
                   val |-> CHOOSE m \in 1..12 : MonthNames[m] = key,
                   rest |-> SubSeq(s, 4, Len(s))]
             ELSE Err

RECURSIVE DigitRun(_, _)
\* The number of leading digits of s, at most max.
DigitRun(s, max) ==
    IF max > 0 /\ s # <<>> /\ IsDigit(Head(s))
    THEN 1 + DigitRun(Tail(s), max - 1)
    ELSE 0

RECURSIVE DigitsValue(_, _)
DigitsValue(s, n) ==
    IF n = 0 THEN 0 ELSE 10 * DigitsValue(s, n - 1) + DigitVal(s[n])

\* scan::number(s, 1, max): between 1 and max digits.
ScanNumber(s, max) ==
    LET n == DigitRun(s, max)
    IN  IF n = 0 THEN Err
        ELSE [ok |-> TRUE, val |-> DigitsValue(s, n), rest |-> SubSeq(s, n + 1, Len(s))]

\* A numeric item without sign (the day): skip whitespace, then the digits.
ScanDay(s) == ScanNumber(TrimStart(s), 2)

\* i32::MAX: Parsed::set_year takes the year as an i32.
MaxI32 == 2147483647

\* The value of a number that does not fit an i32.
TooBig == 0 - 1

RECURSIVE CheckedValue(_, _)
\* The value of the first n characters of s, all digits, computed with
\* checked arithmetic: TooBig when it is above i32::MAX.
CheckedValue(s, n) ==
    IF n = 0 THEN 0
    ELSE LET v == CheckedValue(s, n - 1)
             d == DigitVal(s[n])
         IN  IF v = TooBig \/ v > (MaxI32 - d) \div 10 THEN TooBig ELSE 10 * v + d

\* The digits after a sign: any number of them; the signed value must fit
\* an i32 (OUT_OF_RANGE otherwise), so the magnitude 2^31 passes after "-".
ScanSigned(s, negative) ==
    LET n == DigitRun(s, Len(s))
        v == CheckedValue(s, n)
        rest == SubSeq(s, n + 1, Len(s))
    IN  IF n = 0 THEN Err
        ELSE IF v # TooBig
        THEN [ok |-> TRUE, val |-> IF negative THEN 0 - v ELSE v, rest |-> rest]
        ELSE IF negative /\ CheckedValue(s, n - 1) = 214748364 /\ s[n] = "8"
        THEN [ok |-> TRUE, val |-> (0 - MaxI32) - 1, rest |-> rest]
        ELSE Err

\* The year item is signed: after "+" or "-" any number of digits, else at most 4.
ScanYear(s) ==
    LET t == TrimStart(s)
    IN  IF t # <<>> /\ Head(t) \in {"+", "-"}
        THEN ScanSigned(Tail(t), Head(t) = "-")
        ELSE ScanNumber(t, 4)

\* A literal item: the text must start with it.
ScanLiteral(s, c) ==
    IF s # <<>> /\ Head(s) = c THEN [ok |-> TRUE, val |-> 0, rest |-> Tail(s)] ELSE Err

IsLeap(y) == (y % 4 = 0 /\ y % 100 # 0) \/ y % 400 = 0

DaysInMonth(y, m) ==
    IF m = 2 THEN (IF IsLeap(y) THEN 29 ELSE 28)
    ELSE IF m \in {4, 6, 9, 11} THEN 30 ELSE 31

RECURSIVE DaysBeforeMonth(_, _)
DaysBeforeMonth(y, m) ==
    IF m = 1 THEN 0 ELSE DaysBeforeMonth(y, m - 1) + DaysInMonth(y, m - 1)

\* NaiveDate as its day number in the proleptic Gregorian calendar
\* (num_days_from_ce): NaiveDate's order is the order of these numbers.
DaysFromCE(y, m, d) ==
    365 * (y - 1) + ((y - 1) \div 4) - ((y - 1) \div 100) + ((y - 1) \div 400)
        + DaysBeforeMonth(y, m) + d

NoDate == [ok |-> FALSE, date |-> 0]

\* The years of NaiveDate::MIN and NaiveDate::MAX.
MinYear == 0 - 262143
MaxYear == 262142

\* Parsed::to_naive_date / NaiveDate::from_ymd_opt: the year must be one a
\* NaiveDate can hold and the day must exist.
FromYmdOpt(y, m, d) ==
    IF y >= MinYear /\ y <= MaxYear /\ d >= 1 /\ d <= DaysInMonth(y, m)
    THEN [ok |-> TRUE, date |-> DaysFromCE(y, m, d)]
    ELSE NoDate

\* parse_from_str for either format; fmt only names the day's padding, which
\* parsing ignores.  Trailing text is an error (TOO_LONG).
ParseFromStr(s, fmt) ==
    LET mo == ShortMonth0(s)
        dy == ScanDay(TrimStart(mo.rest))
        cm == ScanLiteral(dy.rest, ",")
        yr == ScanYear(TrimStart(cm.rest))
    IN  IF ~mo.ok THEN NoDate
        ELSE IF ~dy.ok THEN NoDate
        ELSE IF ~cm.ok THEN NoDate
        ELSE IF ~yr.ok THEN NoDate
        ELSE IF yr.rest # <<>> THEN NoDate
        ELSE FromYmdOpt(yr.val, mo.val, dy.val)

\* Variant of ParseDate: unwrap_or_default, a failed parse gives 1 Jan 1970.
ParseDateOrDefault(s) ==
    LET first == ParseFromStr(s, "%b %e, %Y")
    IN  IF first.ok THEN first ELSE [ok |-> TRUE, date |-> DaysFromCE(1970, 1, 1)]

\* parse_from_str(.., "%b %e, %Y").or_else(|_| parse_from_str(.., "%b %d, %Y"))
ParseDate(s) ==
    LET first == ParseFromStr(s, "%b %e, %Y")
    IN  IF first.ok THEN first ELSE ParseFromStr(s, "%b %d, %Y")

(***************************************************************************)
(* Instants: DateTime<Utc> is a NaiveDate and a time of day (seconds and   *)
(* nanoseconds), ordered lexicographically.                                *)
(***************************************************************************)
WindowDays == 120

Instant(date, secs, frac) == [date |-> date, secs |-> secs, frac |-> frac]

\* DateTime's `<`.
InstantLT(a, b) ==
    \/ a.date < b.date
    \/ a.date = b.date /\ a.secs < b.secs
    \/ a.date = b.date /\ a.secs = b.secs /\ a.frac < b.frac

\* Utc::now() - Duration::days(120): whole days, the time of day is kept.
Cutoff(t) == Instant(t.date - WindowDays, t.secs, t.frac)

\* DateTime::<Utc>::from_utc(parsed_date.and_hms(0, 0, 0), Utc)
StartOfDay(date) == Instant(date, 0, 0)

\* Variant of OlderThan: the calendar days are compared, not the instants.
OlderThanByDate(date, cutoff) == date < cutoff.date

\* Variant of OlderThan: `<=` in place of `<`.
OlderOrEqual(date, cutoff) ==
    InstantLT(StartOfDay(date), cutoff) \/ StartOfDay(date) = cutoff

\* dt < one_month_ago
OlderThan(date, cutoff) == InstantLT(StartOfDay(date), cutoff)

(***************************************************************************)
(* The markup of a record node, as the selectors see it.                   *)
(*   h5     the elements matched by date_check_sel, each the sequence of   *)
(*          its text nodes (character sequences);                          *)
(*   blocks the div.col-sm-12 elements in document order; tp0 tells the    *)
(*          ones that also match info_sel (div.col-sm-12.mrgn-tp-0);       *)
(*          texts are the text nodes, p the inner markup of the <p>        *)
(*          descendants;                                                   *)
(*   name   the div.col-sm-8 elements, each with the inner markup of its   *)
(*          <p> descendants;                                               *)
(*   h4     the inner markup of the elements matched by price_sel.         *)
(* Every text is a sequence of characters.                                 *)
(***************************************************************************)
Empty == <<>>

\* Option::unwrap_or_default on the first element of a sequence of texts.
FirstOrDefault(s) == IF s = <<>> THEN Empty ELSE Head(s)

\* str::contains(label) on one text node: label is a substring of t.
Contains(t, label) ==
    \E i \in 0..(Len(t) - Len(label)) : SubSeq(t, i + 1, i + Len(label)) = label

\* div.text().any(|t| t.contains(label))
TextAny(block, label) == \E k \in 1..Len(block.texts) : Contains(block.texts[k], label)

\* item.select(&info_sel)
InfoBlocks(item) == SelectSeq(item.blocks, LAMBDA b : b.tp0)

\* item.select(&generic_sel): the info blocks match div.col-sm-12 too.
GenericBlocks(item) == item.blocks

\* .filter(|div| div.text().any(|t| t.contains(label)))
Labelled(blocks, label) == SelectSeq(blocks, LAMBDA b : TextAny(b, label))

RECURSIVE Join(_)
\* div.text().collect::<Vec<_>>().join(" ")
Join(texts) ==
    IF texts = <<>> THEN Empty
    ELSE IF Len(texts) = 1 THEN texts[1]
    ELSE texts[1] \o <<" ">> \o Join(Tail(texts))

RECURSIVE Replace(_, _)
\* str::replace(label, ""): every occurrence of label, found from left to
\* right without overlap, is removed.
Replace(t, label) ==
    IF label = <<>> \/ Len(t) < Len(label) THEN t
    ELSE IF SubSeq(t, 1, Len(label)) = label
    THEN Replace(SubSeq(t, Len(label) + 1, Len(t)), label)
    ELSE <<Head(t)>> \o Replace(Tail(t), label)

\* The first <p>'s inner markup of the first block, "" without block or <p>.
FirstP(blocks) ==
    IF blocks = <<>> THEN Empty ELSE FirstOrDefault(Head(blocks).p)

\* Variant of FirstText: a placeholder instead of "" without block.
FirstTextOrPlaceholder(blocks) ==
    IF blocks = <<>> THEN <<"N", "/", "A">> ELSE Join(Head(blocks).texts)

\* The joined text of the first block, "" without block.
FirstText(blocks) ==
    IF blocks = <<>> THEN Empty ELSE Join(Head(blocks).texts)

\* The labels the blocks are told by (lines 93, 100, 109, 125, 139).
AgreementNumberLabel ==
    << "A", "g", "r", "e", "e", "m", "e", "n", "t", " ", "N", "u", "m", "b",
       "e", "r" >>
DescriptionLabel ==
    << "D", "e", "s", "c", "r", "i", "p", "t", "i", "o", "n" >>
OrganizationLabel ==
    << "O", "r", "g", "a", "n", "i", "z", "a", "t", "i", "o", "n" >>
DurationLabel ==
    << "D", "u", "r", "a", "t", "i", "o", "n" >>
LocationLabel ==
    << "L", "o", "c", "a", "t", "i", "o", "n" >>

ExtractDateCheck(item) ==
    Trim(IF item.h5 = <<>> THEN Empty ELSE Trim(FirstOrDefault(Head(item.h5))))

ExtractAgreement(item) == Trim(FirstP(InfoBlocks(item)))

ExtractAgreementNumber(item) ==
    Trim(FirstP(Labelled(InfoBlocks(item), AgreementNumberLabel)))

ExtractDescription(item) ==
    Trim(Replace(FirstP(Labelled(GenericBlocks(item), DescriptionLabel)),
                 DescriptionLabel))

ExtractRecipient(item) ==
    Trim(Replace(FirstText(Labelled(GenericBlocks(item), OrganizationLabel)),
                 OrganizationLabel))

ExtractRecipientPublicName(item) == Trim(FirstP(item.name))

ExtractDateRange(item) ==
    Trim(Replace(FirstText(Labelled(InfoBlocks(item), DurationLabel)), DurationLabel))

ExtractPrice(item) == Trim(FirstOrDefault(item.h4))

ExtractLocation(item) ==
    Trim(Replace(FirstText(Labelled(GenericBlocks(item), LocationLabel)), LocationLabel))

\* The nine fields of a node in the order of the array of lines 160-170.
Fields(item) ==
    << ExtractAgreement(item),
       ExtractAgreementNumber(item),
       ExtractDateRange(item),
       ExtractDateCheck(item),
       ExtractDescription(item),
       ExtractRecipient(item),
       ExtractRecipientPublicName(item),
       ExtractPrice(item),
       ExtractLocation(item) >>

\* The header record.
Header ==
    <<
      << "A", "g", "r", "e", "e", "m", "e", "n", "t" >>,
      << "A", "g", "r", "e", "e", "m", "e", "n", "t", " ", "N", "u", "m", "b",
         "e", "r" >>,
      << "D", "a", "t", "e", " ", "A", "g", "r", "e", "e", "m", "e", "n", "t" >>,
      << "D", "a", "t", "e", " ", "A", "g", "r", "e", "e", "d" >>,
      << "D", "e", "s", "c", "r", "i", "p", "t", "i", "o", "n" >>,
      << "R", "e", "c", "i", "p", "i", "e", "n", "t" >>,
      << "R", "e", "c", "i", "p", "i", "e", "n", "t", " ", "P", "u", "b", "l",
         "i", "c", " ", "N", "a", "m", "e" >>,
      << "P", "r", "i", "c", "e" >>,
      << "L", "o", "c", "a", "t", "i", "o", "n" >>
    >>

(***************************************************************************)
(* Inputs: the record nodes the listing can serve and the instants the run *)
(* can start at.  With now on 4 May 2024 the cutoff falls on 5 Jan 2024.   *)
(***************************************************************************)
DateNewer ==
    << "J", "a", "n", " ", "6", ",", " ", "2", "0", "2", "4" >>

\* The text as a page with CRLF line ends and a non-breaking space has it.
DateOnCutoffDay ==
    << "\r", "\n", " ", "J", "a", "n", " ", "0", "5", ",", " ", "2", "0", "2",
       "4", "\r", "\n" >>

DateOlder ==
    << "J", "a", "n", " ", "4", ",", " ", "2", "0", "2", "4" >>

DateNA ==
    << "N", "/", "A" >>

TitleBlock ==
    [tp0 |-> TRUE,
     texts |-> <<
        << "B", "r", "i", "d", "g", "e", " ", "r", "e", "p", "a", "i", "r" >>
     >>,
     p |-> <<
        << " ", "B", "r", "i", "d", "g", "e", " ", "r", "e", "p", "a", "i",
           "r" >>
     >>]

\* The label sits inside a longer text node.
NumberBlock ==
    [tp0 |-> TRUE,
     texts |-> <<
        << "A", "g", "r", "e", "e", "m", "e", "n", "t", " ", "N", "u", "m",
           "b", "e", "r", ":" >>,
        << "G", "C", "-", "1", "7" >>
     >>,
     p |-> <<
        << "G", "C", "-", "1", "7", "\r", "\n" >>
     >>]

DurationBlock ==
    [tp0 |-> TRUE,
     texts |-> <<
        << "D", "u", "r", "a", "t", "i", "o", "n" >>,
        << "2", "0", "2", "4", "-", "2", "0", "2", "6" >>
     >>,
     p |-> <<>>]

\* The label comes twice in the <p>, once inside a longer run of text.
DescriptionBlock ==
    [tp0 |-> FALSE,
     texts |-> <<
        << "P", "r", "o", "j", "e", "c", "t", " ", "D", "e", "s", "c", "r",
           "i", "p", "t", "i", "o", "n" >>,
        << "D", "e", "c", "k", " ", "w", "o", "r", "k", "s" >>
     >>,
     p |-> <<
        << "D", "e", "s", "c", "r", "i", "p", "t", "i", "o", "n", ":", " ",
           "D", "e", "c", "k", " ", "D", "e", "s", "c", "r", "i", "p", "t",
           "i", "o", "n", " ", "w", "o", "r", "k", "s", " " >>
     >>]

OrganizationBlock ==
    [tp0 |-> FALSE,
     texts |-> <<
        << "O", "r", "g", "a", "n", "i", "z", "a", "t", "i", "o", "n" >>,
        << "A", "c", "m", "e" >>
     >>,
     p |-> <<>>]

LocationBlock ==
    [tp0 |-> FALSE,
     texts |-> <<
        << "L", "o", "c", "a", "t", "i", "o", "n" >>,
        << "O", "t", "t", "a", "w", "a", " " >>
     >>,
     p |-> <<>>]

FullBlocks ==
    <<TitleBlock, NumberBlock, DurationBlock, DescriptionBlock, OrganizationBlock,
      LocationBlock>>
NoOrganizationBlocks ==
    <<TitleBlock, NumberBlock, DurationBlock, DescriptionBlock, LocationBlock>>

NameElement ==
    [p |-> <<
        << "A", "c", "m", "e", " ", "I", "n", "c" >>
     >>]
PriceMarkup ==
    << "$", "1", "0", "0" >>

NodeNewer ==
    [h5 |-> << <<DateNewer>> >>, blocks |-> FullBlocks, name |-> <<NameElement>>,
     h4 |-> <<PriceMarkup>>]
NodeOnCutoffDay ==
    [h5 |-> << <<DateOnCutoffDay>> >>, blocks |-> NoOrganizationBlocks,
     name |-> <<NameElement>>, h4 |-> <<PriceMarkup>>]
NodeOlder ==
    [h5 |-> << <<DateOlder>> >>, blocks |-> FullBlocks, name |-> <<NameElement>>,
     h4 |-> <<PriceMarkup>>]
NodeNA ==
    [h5 |-> << <<DateNA>> >>, blocks |-> FullBlocks, name |-> <<NameElement>>,
     h4 |-> <<>>]
NodeNoDate ==
    [h5 |-> <<>>, blocks |-> <<>>, name |-> <<>>, h4 |-> <<PriceMarkup>>]

NodeSamples == {NodeNewer, NodeOnCutoffDay, NodeOlder, NodeNA, NodeNoDate}

\* Utc::now(): 4 May 2024 at midnight, one nanosecond later, and at noon.
NowSamples ==
    { Instant(DaysFromCE(2024, 5, 4), 0, 0),
      Instant(DaysFromCE(2024, 5, 4), 0, 1),
      Instant(DaysFromCE(2024, 5, 4), 43200, 0) }

\* The pages a fetch can return: at most MaxNodes nodes, and the listing
\* serves at most MaxRecords nodes in all.
PagesUpTo(n) == UNION {[1..k -> NodeSamples] : k \in 0..n}

Min(a, b) == IF a < b THEN a ELSE b

RECURSIVE TotalLen(_)
TotalLen(pages) ==
    IF pages = <<>> THEN 0 ELSE Len(Head(pages)) + TotalLen(Tail(pages))

(***************************************************************************)
(* The state of main().                                                    *)
(*   pc            where main is: "start", "fetch" (top of the page loop), *)
(*                 "send" (suspended at send().await, the GET issued),     *)
(*                 "text" (suspended at text().await, the response there), *)
(*                 "iter" (in the for loop over the items), "flush" (after *)
(*                 the page loop), "done" (Ok returned), "error" (Err      *)
(*                 returned through a `?`)                                 *)
(*   err           which `?` returned the error                            *)
(*   one_month_ago the cutoff                                              *)
(*   out           the records written to wtr, in order                    *)
(*   page, document, idx, saw_any   the loops' variables; idx is the       *)
(*                 position of the item iterator in document               *)
(*   warnings      the date texts of the lines written to stderr           *)
(*   flushed       wtr.flush() returned Ok                                 *)
(* History:                                                                *)
(*   requests      the page numbers a GET was sent for                     *)
(*   listing       the pages received, listing[p] the nodes of page p      *)
(*   examined      <<page, position>> of the items the for loop reached    *)
(*   emitted       <<page, position>> of the items a data row was written  *)
(*                 for, in the order of the rows                           *)
(***************************************************************************)
VARIABLES pc, err, one_month_ago, out, page, document, idx, saw_any, warnings,
          flushed, requests, listing, examined, emitted

vars == <<pc, err, one_month_ago, out, page, document, idx, saw_any, warnings,
          flushed, requests, listing, examined, emitted>>

Init ==
    /\ pc = "start"
    /\ err = "none"
    /\ one_month_ago = Instant(0, 0, 0)
    /\ out = <<>>
    /\ page = 1
    /\ document = <<>>
    /\ idx = 1
    /\ saw_any = FALSE
    /\ warnings = <<>>
    /\ flushed = FALSE
    /\ requests = <<>>
    /\ listing = <<>>
    /\ examined = <<>>
    /\ emitted = <<>>

\* The sample nodes, each with its nine fields (lines 55-62 and 85-145).
RowSamples == [n \in NodeSamples |-> Fields(n)]

\* Variant of Row: date_check written before date_range.
RowDatesSwapped(item) ==
    << ExtractAgreement(item),
       ExtractAgreementNumber(item),
       ExtractDateCheck(item),
       ExtractDateRange(item),
       ExtractDescription(item),
       ExtractRecipient(item),
       ExtractRecipientPublicName(item),
       ExtractPrice(item),
       ExtractLocation(item) >>

\* The record handed to wtr.write_record for a kept node (lines 160-170).
\* The fields of a sample node are read from RowSamples and the fields of any
\* other node are extracted on the spot.
Row(item) == IF item \in DOMAIN RowSamples THEN RowSamples[item] ELSE Fields(item)

\* Variant of Gate: a date text that does not parse is let through.
GateKeepsUnparseable(date_check, cutoff) ==
    LET parsed_date == ParseDate(date_check)
    IN  IF parsed_date.ok /\ OlderThan(parsed_date.date, cutoff) THEN "Stop"
        ELSE "Keep"

\* The date texts of the sample nodes, each with its parse (lines 55-74).
ParsedSamples ==
    [s \in {ExtractDateCheck(n) : n \in NodeSamples} |-> ParseDate(s)]

\* The outcome of the date check of lines 65-82 on a date text.  The text is
\* evaluated once; the parse of a sample text is read from ParsedSamples and
\* any other text is parsed on the spot.
Gate(date_check, cutoff) ==
    LET Outcome(parsed_date) ==
            IF ~parsed_date.ok THEN "Unparseable"
            ELSE IF OlderThan(parsed_date.date, cutoff) THEN "Stop"
            ELSE "Keep"
        Parse(s) == IF s \in DOMAIN ParsedSamples THEN ParsedSamples[s]
                    ELSE ParseDate(s)
    IN  CHOOSE g \in {Outcome(Parse(s)) : s \in {date_check}} : TRUE

\* Variant of Start: the header record is not written.
StartNoHeader ==
    /\ pc = "start"
    /\ \E t \in NowSamples : one_month_ago' = Cutoff(t)
    /\ out' = <<>>
    /\ page' = 1
    /\ pc' = "fetch"
    /\ UNCHANGED <<err, document, idx, saw_any, warnings, flushed, requests,
                   listing, examined, emitted>>

\* Lines 10-24: the cutoff, Writer::from_path and the header record.
Start ==
    /\ pc = "start"
    /\ \E t \in NowSamples : one_month_ago' = Cutoff(t)
    /\ out' = <<Header>>
    /\ page' = 1
    /\ pc' = "fetch"
    /\ UNCHANGED <<err, document, idx, saw_any, warnings, flushed, requests,
                   listing, examined, emitted>>

\* Writer::from_path fails: main returns the error, nothing was written.
StartFail ==
    /\ pc = "start"
    /\ pc' = "error"
    /\ err' = "open"
    /\ UNCHANGED <<one_month_ago, out, page, document, idx, saw_any, warnings,
                   flushed, requests, listing, examined, emitted>>

\* Lines 38-44: the GET for page `page` is issued and main is suspended at
\* send().await until the response is there.  No timeout is set: the wait
\* may last for ever.
Request ==
    /\ pc = "fetch"
    /\ requests' = Append(requests, page)
    /\ pc' = "send"
    /\ UNCHANGED <<err, one_month_ago, out, page, document, idx, saw_any, warnings,
                   flushed, listing, examined, emitted>>

\* Lines 44-45: send().await returns the response and main is suspended at
\* text().await until the body is there.
Respond ==
    /\ pc = "send"
    /\ pc' = "text"
    /\ UNCHANGED <<err, one_month_ago, out, page, document, idx, saw_any, warnings,
                   flushed, requests, listing, examined, emitted>>

\* Line 44: send().await fails, `?` returns the error from main.
SendFail ==
    /\ pc = "send"
    /\ pc' = "error"
    /\ err' = "transport"
    /\ UNCHANGED <<one_month_ago, out, page, document, idx, saw_any, warnings,
                   flushed, requests, listing, examined, emitted>>

\* Lines 45-49: text().await returns the body, the document is parsed and
\* the for loop starts.
Fetch ==
    /\ pc = "text"
    /\ \E nodes \in PagesUpTo(Min(MaxNodes, MaxRecords - TotalLen(listing))) :
          /\ document' = nodes
          /\ listing' = Append(listing, nodes)
    /\ idx' = 1
    /\ saw_any' = FALSE
    /\ pc' = "iter"
    /\ UNCHANGED <<err, one_month_ago, out, page, warnings, flushed, requests,
                   examined, emitted>>

\* Variant of FetchFail: the failed page is given up and the next one tried.
FetchFailSkipsPage ==
    /\ pc = "text"
    /\ pc' = "fetch"
    /\ page' = page + 1
    /\ err' = "transport"
    /\ UNCHANGED <<one_month_ago, out, document, idx, saw_any, warnings, flushed,
                   requests, listing, examined, emitted>>

\* Line 45: text().await fails, `?` returns the error from main.
FetchFail ==
    /\ pc = "text"
    /\ pc' = "error"
    /\ err' = "transport"
    /\ UNCHANGED <<one_month_ago, out, page, document, idx, saw_any, warnings,
                   flushed, requests, listing, examined, emitted>>

\* The for loop has an item left.
AtItem == pc = "iter" /\ idx <= Len(document)

\* Variant of Skip: saw_any is set only past the date check.
SkipWithoutSawAny ==
    /\ AtItem
    /\ Gate(ExtractDateCheck(document[idx]), one_month_ago) = "Unparseable"
    /\ warnings' = Append(warnings, ExtractDateCheck(document[idx]))
    /\ examined' = Append(examined, <<page, idx>>)
    /\ idx' = idx + 1
    /\ UNCHANGED <<pc, err, one_month_ago, out, page, document, saw_any, flushed,
                   requests, listing, emitted>>

\* Variant of Skip: the parse error is returned with `?`.
SkipReturnsError ==
    /\ AtItem
    /\ Gate(ExtractDateCheck(document[idx]), one_month_ago) = "Unparseable"
    /\ saw_any' = TRUE
    /\ examined' = Append(examined, <<page, idx>>)
    /\ pc' = "error"
    /\ err' = "parse"
    /\ UNCHANGED <<one_month_ago, out, page, document, idx, warnings, flushed,
                   requests, listing, emitted>>

\* Lines 52-74: the date of the item does not parse: warn, continue.
Skip ==
    /\ AtItem
    /\ Gate(ExtractDateCheck(document[idx]), one_month_ago) = "Unparseable"
    /\ saw_any' = TRUE
    /\ warnings' = Append(warnings, ExtractDateCheck(document[idx]))
    /\ examined' = Append(examined, <<page, idx>>)
    /\ idx' = idx + 1
    /\ UNCHANGED <<pc, err, one_month_ago, out, page, document, flushed, requests,
                   listing, emitted>>

\* Variant of Stop: a plain `break`, which leaves only the for loop.
StopBreaksItemLoop ==
    /\ AtItem
    /\ Gate(ExtractDateCheck(document[idx]), one_month_ago) = "Stop"
    /\ saw_any' = TRUE
    /\ examined' = Append(examined, <<page, idx>>)
    /\ idx' = Len(document) + 1
    /\ UNCHANGED <<pc, err, one_month_ago, out, page, document, warnings, flushed,
                   requests, listing, emitted>>

\* Variant of Stop: `continue`, the older item is passed over.
StopContinues ==
    /\ AtItem
    /\ Gate(ExtractDateCheck(document[idx]), one_month_ago) = "Stop"
    /\ saw_any' = TRUE
    /\ examined' = Append(examined, <<page, idx>>)
    /\ idx' = idx + 1
    /\ UNCHANGED <<pc, err, one_month_ago, out, page, document, warnings, flushed,
                   requests, listing, emitted>>

\* Lines 52-82: the item is older than the cutoff: break 'pages.
Stop ==
    /\ AtItem
    /\ Gate(ExtractDateCheck(document[idx]), one_month_ago) = "Stop"
    /\ saw_any' = TRUE
    /\ examined' = Append(examined, <<page, idx>>)
    /\ pc' = "flush"
    /\ UNCHANGED <<err, one_month_ago, out, page, document, idx, warnings, flushed,
                   requests, listing, emitted>>

\* Variant of Keep: the record is written twice.
KeepWritesTwice ==
    /\ AtItem
    /\ Gate(ExtractDateCheck(document[idx]), one_month_ago) = "Keep"
    /\ saw_any' = TRUE
    /\ examined' = Append(examined, <<page, idx>>)
    /\ out' = Append(Append(out, Row(document[idx])), Row(document[idx]))
    /\ emitted' = Append(Append(emitted, <<page, idx>>), <<page, idx>>)
    /\ idx' = idx + 1
    /\ UNCHANGED <<pc, err, one_month_ago, page, document, warnings, flushed,
                   requests, listing>>

\* Variant of Keep: the record is put in front of the rows written so far.
KeepInsertsFirst ==
    /\ AtItem
    /\ Gate(ExtractDateCheck(document[idx]), one_month_ago) = "Keep"
    /\ saw_any' = TRUE
    /\ examined' = Append(examined, <<page, idx>>)
    /\ out' = <<Head(out), Row(document[idx])>> \o Tail(out)
    /\ emitted' = <<<<page, idx>>>> \o emitted
    /\ idx' = idx + 1
    /\ UNCHANGED <<pc, err, one_month_ago, page, document, warnings, flushed,
                   requests, listing>>

\* Lines 52-171: the item is kept: extract the fields, write the record.
Keep ==
    /\ AtItem
    /\ Gate(ExtractDateCheck(document[idx]), one_month_ago) = "Keep"
    /\ saw_any' = TRUE
    /\ examined' = Append(examined, <<page, idx>>)
    /\ out' = Append(out, Row(document[idx]))
    /\ emitted' = Append(emitted, <<page, idx>>)
    /\ idx' = idx + 1
    /\ UNCHANGED <<pc, err, one_month_ago, page, document, warnings, flushed,
                   requests, listing>>

\* Variant of KeepWriteFail: the result of write_record is dropped.
KeepWriteFailIgnored ==
    /\ AtItem
    /\ Gate(ExtractDateCheck(document[idx]), one_month_ago) = "Keep"
    /\ saw_any' = TRUE
    /\ examined' = Append(examined, <<page, idx>>)
    /\ idx' = idx + 1
    /\ err' = "write"
    /\ UNCHANGED <<pc, one_month_ago, out, page, document, warnings, flushed,
                   requests, listing, emitted>>

\* Lines 160-170: write_record fails, `?` returns the error from main.
KeepWriteFail ==
    /\ AtItem
    /\ Gate(ExtractDateCheck(document[idx]), one_month_ago) = "Keep"
    /\ saw_any' = TRUE
    /\ examined' = Append(examined, <<page, idx>>)
    /\ pc' = "error"
    /\ err' = "write"
    /\ UNCHANGED <<one_month_ago, out, page, document, idx, warnings, flushed,
                   requests, listing, emitted>>

\* Variant of EndPage: saw_any is not looked at.
EndPageAlwaysNext ==
    /\ pc = "iter"
    /\ idx > Len(document)
    /\ pc' = "fetch"
    /\ page' = page + 1
    /\ UNCHANGED <<err, one_month_ago, out, document, idx, saw_any, warnings,
                   flushed, requests, listing, examined, emitted>>

\* Variant of EndPage: `page += 1` is missing.
EndPageNoIncrement ==
    /\ pc = "iter"
    /\ idx > Len(document)
    /\ pc' = (IF ~saw_any THEN "flush" ELSE "fetch")
    /\ UNCHANGED <<err, one_month_ago, out, page, document, idx, saw_any, warnings,
                   flushed, requests, listing, examined, emitted>>

\* Variant of EndPage: the page number advances by two.
EndPageSkipsPage ==
    /\ pc = "iter"
    /\ idx > Len(document)
    /\ IF ~saw_any
       THEN pc' = "flush" /\ page' = page
       ELSE pc' = "fetch" /\ page' = page + 2
    /\ UNCHANGED <<err, one_month_ago, out, document, idx, saw_any, warnings,
                   flushed, requests, listing, examined, emitted>>

\* Variant of EndPage: the crawl gives up after the second page.
EndPageWithPageCap ==
    /\ pc = "iter"
    /\ idx > Len(document)
    /\ IF ~saw_any \/ page >= 2
       THEN pc' = "flush" /\ page' = page
       ELSE pc' = "fetch" /\ page' = page + 1
    /\ UNCHANGED <<err, one_month_ago, out, document, idx, saw_any, warnings,
                   flushed, requests, listing, examined, emitted>>

\* Lines 173-177: the for loop is over: stop on a page without items, else
\* go to the next page.
EndPage ==
    /\ pc = "iter"
    /\ idx > Len(document)
    /\ IF ~saw_any
       THEN pc' = "flush" /\ page' = page
       ELSE pc' = "fetch" /\ page' = page + 1
    /\ UNCHANGED <<err, one_month_ago, out, document, idx, saw_any, warnings,
                   flushed, requests, listing, examined, emitted>>

\* Lines 180-181: wtr.flush() succeeds, main returns Ok.
Flush ==
    /\ pc = "flush"
    /\ flushed' = TRUE
    /\ pc' = "done"
    /\ UNCHANGED <<err, one_month_ago, out, page, document, idx, saw_any, warnings,
                   requests, listing, examined, emitted>>

\* Variant of FlushFail: the result of flush() is dropped, main returns Ok.
FlushFailIgnored ==
    /\ pc = "flush"
    /\ pc' = "done"
    /\ err' = "flush"
    /\ UNCHANGED <<one_month_ago, out, page, document, idx, saw_any, warnings,
                   flushed, requests, listing, examined, emitted>>

\* Line 180: wtr.flush() fails, `?` returns the error from main.
FlushFail ==
    /\ pc = "flush"
    /\ pc' = "error"
    /\ err' = "flush"
    /\ UNCHANGED <<one_month_ago, out, page, document, idx, saw_any, warnings,
                   flushed, requests, listing, examined, emitted>>

Next ==
    \/ Start
    \/ StartFail
    \/ Request
    \/ Respond
    \/ SendFail
    \/ Fetch
    \/ FetchFail
    \/ Skip
    \/ Stop
    \/ Keep
    \/ KeepWriteFail
    \/ EndPage
    \/ Flush
    \/ FlushFail

Spec == Init /\ [][Next]_vars

(***************************************************************************)
(* The runs in which every fetch and every write succeeds: every request   *)
(* is answered and its body arrives.  The listing is followed for          *)
(* MaxRecords nodes: it may end before (an empty page), and where it has   *)
(* not ended the run stays at the fetch of the next page.  main is one     *)
(* sequential task that runs until it returns, hence the weak fairness of  *)
(* its steps; the fairness of Respond and Fetch is the success of the      *)
(* fetches.                                                                *)
(***************************************************************************)
\* Lines 38-44 while the listing is followed.
RequestWithinHorizon ==
    /\ TotalLen(listing) < MaxRecords
    /\ Request

LiveNext ==
    \/ Start
    \/ RequestWithinHorizon
    \/ Respond
    \/ Fetch
    \/ Skip
    \/ Stop
    \/ Keep
    \/ EndPage
    \/ Flush

LiveSpec == Init /\ [][LiveNext]_vars /\ WF_vars(LiveNext)

(***************************************************************************)
(* Vocabulary of the properties.  The cutoff comparison is restated here   *)
(* on the parsed date, not through OlderThan.                              *)
(***************************************************************************)
\* The crawl is over: main left the page loop through one of its breaks.
Halted == pc \in {"flush", "done"} \/ (pc = "error" /\ err = "flush")

\* The writer exists.
SinkOpen == pc # "start" /\ err # "open"

\* The node at <<page, position>> of the listing received so far.
NodeAt(e) == listing[e[1]][e[2]]

Positions == UNION {{<<p, i>> : i \in 1..Len(listing[p])} : p \in 1..Len(listing)}

\* Encounter order: ascending page, then document order.
Before(a, b) == a[1] < b[1] \/ (a[1] = b[1] /\ a[2] < b[2])

Ascending(seq) == \A i, j \in 1..Len(seq) : i < j => Before(seq[i], seq[j])

Count(e, seq) == Cardinality({k \in 1..Len(seq) : seq[k] = e})

Parsed(node) == ParseDate(ExtractDateCheck(node))

HasDate(node) == Parsed(node).ok

\* 00:00:00 UTC of the parsed date d is exactly the cutoff.
DateAtCutoff(d) ==
    /\ d.ok
    /\ d.date = one_month_ago.date
    /\ one_month_ago.secs = 0
    /\ one_month_ago.frac = 0

\* 00:00:00 UTC of the parsed date d is strictly before the cutoff.
DateEarlier(d) ==
    /\ d.ok
    /\ \/ d.date < one_month_ago.date
       \/ /\ d.date = one_month_ago.date
          /\ (one_month_ago.secs > 0 \/ one_month_ago.frac > 0)

DateInWindow(d) == d.ok /\ ~DateEarlier(d)

AtCutoff(node) == DateAtCutoff(Parsed(node))

Earlier(node) == DateEarlier(Parsed(node))

InWindow(node) == DateInWindow(Parsed(node))

\* The parsed date of every node received so far.
DatesOf == [q \in Positions |-> Parsed(NodeAt(q))]

\* The nodes with a date come in descending date order.
SortedListing ==
    LET dates == DatesOf
    IN  \A a, b \in Positions :
            (Before(a, b) /\ dates[a].ok /\ dates[b].ok) => dates[a].date >= dates[b].date

\* The examined items whose record was written.
Written ==
    LET kept == SelectSeq(examined, LAMBDA e : InWindow(NodeAt(e)))
    IN  IF err = "write" THEN SubSeq(kept, 1, Len(kept) - 1) ELSE kept

(***************************************************************************)
(* C1.  An examined node whose date is strictly earlier than the cutoff    *)
(* halts the crawl at once: it is the last node examined, it has no row,   *)
(* every row comes from a node before it, and its page is the last page    *)
(* requested.                                                              *)
(***************************************************************************)
C1_StopHaltsAtOnce ==
    \A k \in 1..Len(examined) :
        Earlier(NodeAt(examined[k])) =>
            /\ k = Len(examined)
            /\ Halted
            /\ Count(examined[k], emitted) = 0
            /\ \A j \in 1..Len(emitted) : Before(emitted[j], examined[k])
            /\ page = examined[k][1]
            /\ Len(requests) = examined[k][1]
            /\ Len(listing) = examined[k][1]

\* A finished run that stopped at an older node with a node left behind it
\* on the page, after a row was written.
C1_Witness ==
    /\ pc = "done"
    /\ Len(emitted) >= 1
    /\ \E k \in 1..Len(examined) :
          /\ Earlier(NodeAt(examined[k]))
          /\ examined[k][2] < Len(listing[examined[k][1]])

(***************************************************************************)
(* C2.  A step at a node whose date text does not parse appends no row,    *)
(* keeps the page number, logs the date text and moves to the next node of *)
(* the same page without an error.                                         *)
(***************************************************************************)
C2_UnparseableSkipped ==
    [][ (AtItem /\ ~HasDate(document[idx])) =>
            /\ out' = out
            /\ emitted' = emitted
            /\ page' = page
            /\ document' = document
            /\ idx' = idx + 1
            /\ pc' = "iter"
            /\ err' = "none"
            /\ warnings' = Append(warnings, ExtractDateCheck(document[idx])) ]_vars

\* The "N/A" node was skipped and the next node of its page was examined.
C2_Witness ==
    \E k \in 1..Len(examined) - 1 :
        /\ NodeAt(examined[k]) = NodeNA
        /\ examined[k + 1] = <<examined[k][1], examined[k][2] + 1>>
        /\ \E w \in 1..Len(warnings) : warnings[w] = DateNA
        /\ Len(emitted) >= 1

(***************************************************************************)
(* C3 as stated: when the run has ended successfully, every node of the    *)
(* received pages with a date on or after the cutoff has exactly one row.  *)
(***************************************************************************)
C3_EveryInWindowNodeEmitted ==
    pc = "done" =>
        \A q \in Positions : InWindow(NodeAt(q)) => Count(q, emitted) = 1

(***************************************************************************)
(* C3, amended.  Every node the crawl examines with a date on or after the *)
(* cutoff has exactly one row (none if its append failed, which ends the   *)
(* run); rows belong to such nodes only and come in encounter order; on a  *)
(* listing in descending date order a successful run has a row for every   *)
(* such node of the received pages.                                        *)
(***************************************************************************)
C3_ExaminedInWindowEmittedOnce ==
    /\ \A k \in 1..Len(examined) :
          InWindow(NodeAt(examined[k])) =>
              Count(examined[k], emitted) =
                  IF k = Len(examined) /\ err = "write" THEN 0 ELSE 1
    /\ \A j \in 1..Len(emitted) :
          /\ Count(emitted[j], examined) = 1
          /\ InWindow(NodeAt(emitted[j]))
    /\ Ascending(emitted)
    /\ (pc = "done" /\ SortedListing) =>
          \A q \in Positions : InWindow(NodeAt(q)) => Count(q, emitted) = 1

\* A successful run over a sorted listing that wrote two sibling nodes.
C3_Witness ==
    /\ pc = "done"
    /\ SortedListing
    /\ \E j \in 1..Len(emitted) - 1 : emitted[j + 1] = <<emitted[j][1], emitted[j][2] + 1>>

(***************************************************************************)
(* C4.  On a listing in descending date order, the crawl never goes past a *)
(* node older than the cutoff: nothing behind such a node is examined or   *)
(* written, no later page is requested, and the node itself has no row.    *)
(***************************************************************************)
C4_MonotonicStop ==
    SortedListing =>
        \A q \in Positions :
            DateEarlier(DatesOf[q]) =>
                /\ \A k \in 1..Len(examined) : ~Before(q, examined[k])
                /\ \A j \in 1..Len(emitted) : Before(emitted[j], q)
                /\ Len(requests) = q[1]
                /\ (Count(q, examined) = 1 => Halted)

\* A sorted listing: rows were written, the crawl stopped at an older node
\* and an older node lies behind it.
C4_Witness ==
    /\ SortedListing
    /\ Halted
    /\ Len(emitted) >= 1
    /\ \E a, b \in Positions :
          /\ Before(a, b)
          /\ Earlier(NodeAt(a))
          /\ Earlier(NodeAt(b))
          /\ Count(a, examined) = 1

(***************************************************************************)
(* C5.  When the page just received has no record node, the next step      *)
(* leaves the page loop without a request or a row; once the crawl is      *)
(* halted it stays halted and requests, rows and examined nodes are final. *)
(***************************************************************************)
C5_EmptyPageHalts ==
    [][ /\ (pc = "iter" /\ document = <<>>) =>
              /\ pc' = "flush"
              /\ out' = out
              /\ requests' = requests
              /\ examined' = examined
        /\ Halted =>
              /\ Halted'
              /\ out' = out
              /\ requests' = requests
              /\ listing' = listing
              /\ examined' = examined ]_vars

\* A run that ended on an empty second or later page after writing a row.
C5_Witness ==
    /\ pc = "done"
    /\ Len(listing) >= 2
    /\ listing[Len(listing)] = <<>>
    /\ Len(requests) = Len(listing)
    /\ Len(emitted) >= 1

(***************************************************************************)
(* C6.  A step at a node with a date leaves the page loop exactly when the *)
(* start of the node's day is strictly before the cutoff; otherwise, equal *)
(* instants included, it writes the node's row (or fails writing it).      *)
(***************************************************************************)
C6_GateBoundary ==
    [][ (AtItem /\ HasDate(document[idx])) =>
            /\ Earlier(document[idx]) => (pc' = "flush" /\ out' = out)
            /\ ~Earlier(document[idx]) =>
                  \/ pc' = "iter" /\ out' = Append(out, Row(document[idx]))
                  \/ pc' = "error" /\ err' = "write" /\ out' = out ]_vars

\* A node whose instant is exactly the cutoff has a row.
C6_Witness ==
    \E j \in 1..Len(emitted) :
        /\ AtCutoff(NodeAt(emitted[j]))
        /\ out[j + 1] = Row(NodeAt(emitted[j]))

(***************************************************************************)
(* C7.  Once the writer exists, the first record written is the header and *)
(* every other record is the row of an emitted node, so the header is      *)
(* there exactly once, also when no node was emitted.                      *)
(***************************************************************************)
C7_HeaderOnceFirst ==
    IF SinkOpen
    THEN /\ Len(out) = 1 + Len(emitted)
         /\ out[1] = Header
         /\ Len(Header) = 9
    ELSE out = <<>>

\* A finished run with two data rows under the header.
C7_Witness ==
    /\ pc = "done"
    /\ Len(emitted) = 2
    /\ Len(out) = 3
    /\ out[1] = Header

(***************************************************************************)
(* C8.  After a transport failure at page p the run has ended in error     *)
(* without a flush; the requests are exactly 1..p, each once; page p was   *)
(* not received; every examined node and every row is of a page before p.  *)
(***************************************************************************)
C8_TransportFailureFatal ==
    err = "transport" =>
        /\ pc = "error"
        /\ ~flushed
        /\ Len(requests) = page
        /\ \A k \in 1..Len(requests) : requests[k] = k
        /\ Len(listing) = page - 1
        /\ \A k \in 1..Len(examined) : examined[k][1] < page
        /\ \A j \in 1..Len(emitted) : emitted[j][1] < page
        /\ Len(out) = 1 + Len(emitted)

\* The fetch of the second page failed after a row of the first was written.
C8_Witness ==
    /\ err = "transport"
    /\ pc = "error"
    /\ page = 2
    /\ Len(emitted) >= 1

(***************************************************************************)
(* C9.  The row of every emitted node has nine fields in the order of the  *)
(* header: agreement, agreement number, date range (under "Date            *)
(* Agreement"), the date text of the cutoff check (under "Date Agreed"),   *)
(* description, recipient, recipient public name, price, location.         *)
(***************************************************************************)
C9_RowColumns ==
    /\ Len(out) >= Len(emitted)
    /\ \A j \in 1..Len(emitted) :
          LET node == NodeAt(emitted[j])
              row == out[j + 1]
          IN  /\ Len(row) = 9
              /\ row[1] = ExtractAgreement(node)
              /\ row[2] = ExtractAgreementNumber(node)
              /\ row[3] = ExtractDateRange(node)
              /\ Header[3] = <<"D", "a", "t", "e", " ", "A", "g", "r", "e", "e", "m",
                                "e", "n", "t">>
              /\ row[4] = ExtractDateCheck(node)
              /\ Header[4] = <<"D", "a", "t", "e", " ", "A", "g", "r", "e", "e", "d">>
              /\ ParseDate(row[4]).ok
              /\ row[5] = ExtractDescription(node)
              /\ row[6] = ExtractRecipient(node)
              /\ row[7] = ExtractRecipientPublicName(node)
              /\ row[8] = ExtractPrice(node)
              /\ row[9] = ExtractLocation(node)

\* The row of the node with nine different field values was written.
C9_Witness ==
    \E j \in 1..Len(emitted) :
        /\ NodeAt(emitted[j]) = NodeNewer
        /\ out[j + 1][3] = <<"2", "0", "2", "4", "-", "2", "0", "2", "6">>
        /\ out[j + 1][4] = DateNewer
        /\ Cardinality({out[j + 1][c] : c \in 1..9}) = 9

(***************************************************************************)
(* C10.  In every state the data rows are the rows of the examined nodes   *)
(* that were kept, in the order they were examined, and nodes are examined *)
(* in ascending page number and document order: the row of a kept node is  *)
(* there before the next node is examined.                                 *)
(***************************************************************************)
C10_RowsInEncounterOrder ==
    /\ Ascending(examined)
    /\ emitted = Written
    /\ SinkOpen =>
          /\ Len(out) = 1 + Len(emitted)
          /\ \A j \in 1..Len(emitted) : out[j + 1] = Row(NodeAt(emitted[j]))

\* Two different rows of one page, then a row of the next page.
C10_Witness ==
    /\ Len(emitted) = 3
    /\ emitted[1][1] = emitted[2][1]
    /\ emitted[2][1] < emitted[3][1]
    /\ out[2] # out[3]

(***************************************************************************)
(* Vocabulary of the properties about the end of the run.                  *)
(***************************************************************************)
\* The last item examined is older than the cutoff.
StoppedAtOlder ==
    examined # <<>> /\ Earlier(NodeAt(examined[Len(examined)]))

\* The last page received has no record node.
EndedOnEmptyPage ==
    listing # <<>> /\ listing[Len(listing)] = <<>>

(***************************************************************************)
(* C11.  main has returned Ok only with the flush done and no error met;   *)
(* the flush is done only there; the flush is reached only from a halted   *)
(* crawl, after an older node or after an empty page; a run that met an    *)
(* error has ended in error without a successful flush.                    *)
(***************************************************************************)
C11_SuccessOnlyAfterFlush ==
    /\ pc = "done" =>
          /\ flushed
          /\ err = "none"
          /\ StoppedAtOlder \/ EndedOnEmptyPage
    /\ flushed => pc = "done"
    /\ pc = "flush" =>
          /\ ~flushed
          /\ err = "none"
          /\ StoppedAtOlder \/ EndedOnEmptyPage
    /\ (StoppedAtOlder \/ (EndedOnEmptyPage /\ pc # "iter")) =>
          (pc \in {"flush", "done"} \/ err = "flush")
    /\ err # "none" => (pc = "error" /\ ~flushed)

\* A successful run that halted at an older node after writing a row.
C11_Witness ==
    /\ pc = "done"
    /\ flushed
    /\ StoppedAtOlder
    /\ ~EndedOnEmptyPage
    /\ Len(emitted) >= 1

(***************************************************************************)
(* C12.  After a failed append the run has ended in error at the item      *)
(* whose row failed: that item is the last examined and has no row, the    *)
(* iterator has not moved, no request followed, the flush was not done and *)
(* the records written before are all there.  After a failed flush the run *)
(* has ended in error with the records written before all there.           *)
(***************************************************************************)
C12_WriteFailureFatal ==
    /\ err = "write" =>
          /\ pc = "error"
          /\ ~flushed
          /\ examined # <<>>
          /\ examined[Len(examined)] = <<page, idx>>
          /\ Count(<<page, idx>>, emitted) = 0
          /\ Len(requests) = page
          /\ Len(out) = 1 + Len(emitted)
          /\ out[1] = Header
          /\ \A j \in 1..Len(emitted) :
                /\ Before(emitted[j], <<page, idx>>)
                /\ out[j + 1] = Row(NodeAt(emitted[j]))
    /\ err = "flush" =>
          /\ pc = "error"
          /\ ~flushed
          /\ Len(requests) = page
          /\ Len(out) = 1 + Len(emitted)
          /\ out[1] = Header
          /\ \A j \in 1..Len(emitted) : out[j + 1] = Row(NodeAt(emitted[j]))

\* The append of the first item of a page failed after a row was written,
\* with an item left behind it on the page.
C12_Witness ==
    /\ err = "write"
    /\ pc = "error"
    /\ Len(emitted) >= 1
    /\ idx < Len(document)

(***************************************************************************)
(* C13.  The markup a field is read from, stated on the node itself.       *)
(***************************************************************************)
\* Some div.col-sm-12 (with mrgn-tp-0 when info is TRUE) has a text node
\* holding the label.
HasBlockWith(node, label, info) ==
    \E k \in 1..Len(node.blocks) :
        /\ info => node.blocks[k].tp0
        /\ \E t \in 1..Len(node.blocks[k].texts) :
              LET text == node.blocks[k].texts[t]
              IN  \E i \in 1..Len(text) :
                      /\ i + Len(label) - 1 <= Len(text)
                      /\ \A c \in 1..Len(label) : text[i + c - 1] = label[c]

HasInfoBlock(node) == \E k \in 1..Len(node.blocks) : node.blocks[k].tp0

(***************************************************************************)
(* C13.  Every examined node with a date on or after the cutoff is written *)
(* as one row whatever markup it lacks (unless the append itself fails),   *)
(* the crawl goes on behind it, no error other than open, transport, write *)
(* and flush exists, and a field whose markup is missing is "" in the row. *)
(***************************************************************************)
C13_ExtractionTotal ==
    /\ err \in {"none", "open", "transport", "write", "flush"}
    /\ \A k \in 1..Len(examined) :
          InWindow(NodeAt(examined[k])) =>
              \/ k = Len(examined) /\ err = "write"
              \/ /\ Count(examined[k], emitted) = 1
                 /\ Before(examined[k], <<page, idx>>)
    /\ \A j \in 1..Len(emitted) :
          LET node == NodeAt(emitted[j])
              row == out[j + 1]
          IN  /\ ~HasInfoBlock(node) => row[1] = <<>>
              /\ ~HasBlockWith(node, AgreementNumberLabel, TRUE) => row[2] = <<>>
              /\ ~HasBlockWith(node, DurationLabel, TRUE) => row[3] = <<>>
              /\ ~HasBlockWith(node, DescriptionLabel, FALSE) => row[5] = <<>>
              /\ ~HasBlockWith(node, OrganizationLabel, FALSE) => row[6] = <<>>
              /\ node.name = <<>> => row[7] = <<>>
              /\ node.h4 = <<>> => row[8] = <<>>
              /\ ~HasBlockWith(node, LocationLabel, FALSE) => row[9] = <<>>

\* A node without "Organization" block was written with an empty recipient
\* and the item behind it was examined.
C13_Witness ==
    \E j \in 1..Len(emitted) :
        /\ ~HasBlockWith(NodeAt(emitted[j]), OrganizationLabel, FALSE)
        /\ out[j + 1][6] = <<>>
        /\ out[j + 1][9] = <<"O", "t", "t", "a", "w", "a">>
        /\ Count(<<emitted[j][1], emitted[j][2] + 1>>, examined) = 1

(***************************************************************************)
(* C14.  The requests are for the pages 1, 2, 3, ... in this order, each   *)
(* once.  Every page before the last one requested was received, had at    *)
(* least one node, and each of its nodes was examined once and was not     *)
(* older than the cutoff.  A request without its page exists only as the   *)
(* last one, while main waits for it or after a transport failure: no two  *)
(* fetches are outstanding.                                                *)
(***************************************************************************)
C14_PagesInSequence ==
    /\ \A k \in 1..Len(requests) : requests[k] = k
    /\ Len(listing) = (IF err = "transport" \/ pc \in {"send", "text"}
                       THEN Len(requests) - 1
                       ELSE Len(requests))
    /\ pc \in {"send", "text", "iter", "flush", "done"} => page = Len(requests)
    /\ pc = "fetch" => page = Len(requests) + 1
    /\ \A p \in 1..Len(requests) - 1 :
          /\ Len(listing[p]) >= 1
          /\ \A i \in 1..Len(listing[p]) :
                /\ Count(<<p, i>>, examined) = 1
                /\ ~Earlier(listing[p][i])

\* Three pages were requested one after the other.
C14_Witness ==
    /\ requests = <<1, 2, 3>>
    /\ Len(listing) = 3
    /\ pc = "done"

(***************************************************************************)
(* C15.  Vocabulary: a page that ends the crawl, and the end of the part   *)
(* of the listing the model follows.                                       *)
(***************************************************************************)
\* Some received page is empty or has a node older than the cutoff.
HaltingPageReceived ==
    \E p \in 1..Len(listing) :
        \/ listing[p] = <<>>
        \/ \E i \in 1..Len(listing[p]) : Earlier(listing[p][i])

\* No received page ends the crawl and the crawl is at the fetch of the
\* page after the last one received.
StillCrawling ==
    /\ pc = "fetch"
    /\ ~HaltingPageReceived
    /\ page = Len(listing) + 1
    /\ TotalLen(listing) = MaxRecords

(***************************************************************************)
(* C15.  With every fetch and write succeeding: the crawl is halted only   *)
(* if a received page is empty or has a node older than the cutoff; once   *)
(* such a page is received the crawl eventually halts; and a run that      *)
(* receives no such page goes from page to page, whatever the page number, *)
(* for as long as the listing is followed.                                 *)
(***************************************************************************)
C15_HaltsIffHaltingPage ==
    /\ [](Halted => HaltingPageReceived)
    /\ (HaltingPageReceived ~> Halted)
    /\ <>(Halted \/ StillCrawling)

\* Pages without end: every page received had nodes, none older, rows were
\* written and the crawl is at the fetch of the fourth page or a later one.
C15_Witness ==
    /\ StillCrawling
    /\ page >= MaxRecords + 1
    /\ Len(emitted) >= 1

(***************************************************************************)
(* C16.  The pages requested are 1, 2, 3, ... each once, and none beyond   *)
(* the smallest page k that is empty or has a node older than the cutoff;  *)
(* a run that returned Ok requested exactly the pages 1..k and received    *)
(* exactly k pages; and when page k is empty and every node of the pages   *)
(* before it is in the window, every one of these nodes has its row, in    *)
(* encounter order.                                                        *)
(***************************************************************************)
C16_FetchesUpToFirstHaltingPage ==
    LET dates == DatesOf
        halting == {p \in 1..Len(listing) :
                        \/ listing[p] = <<>>
                        \/ \E i \in 1..Len(listing[p]) : DateEarlier(dates[<<p, i>>])}
    IN  /\ requests = [i \in 1..Len(requests) |-> i]
        /\ \A p \in halting : Len(requests) <= p
        /\ pc = "done" =>
              /\ halting # {}
              /\ LET k == CHOOSE p \in halting : \A q \in halting : p <= q
                 IN  /\ requests = [i \in 1..k |-> i]
                     /\ Len(listing) = k
                     /\ (listing[k] = <<>> /\ \A q \in Positions : DateInWindow(dates[q]))
                            => /\ Len(emitted) = Cardinality(Positions)
                               /\ Ascending(emitted)
                               /\ \A q \in Positions : Count(q, emitted) = 1
                               /\ Len(out) = 1 + Len(emitted)
                               /\ \A j \in 1..Len(emitted) :
                                      out[j + 1] = Row(NodeAt(emitted[j]))

\* Scenario B: page 1 has two nodes, both in the window, page 2 is empty; the
\* run returned Ok after requesting pages 1 and 2, with a row for each node.
C16_Witness ==
    /\ pc = "done"
    /\ err = "none"
    /\ Len(listing) = 2
    /\ Len(listing[1]) = 2
    /\ \A i \in 1..2 : InWindow(listing[1][i])
    /\ listing[2] = <<>>
    /\ requests = <<1, 2>>
    /\ Len(out) = 3

(***************************************************************************)
(* C17.  In every state, sorted listing or not, every data row is the row  *)
(* of a node whose date text parses to a date whose instant is not earlier *)
(* than the cutoff, the date column of the row is that text, and no node   *)
(* with an unparseable or earlier date has a row.                          *)
(***************************************************************************)
C17_OnlyInWindowRows ==
    LET dates == DatesOf
    IN  /\ Len(out) <= 1 + Len(emitted)
        /\ \A j \in 2..Len(out) :
               /\ out[j][4] = ExtractDateCheck(NodeAt(emitted[j - 1]))
               /\ DateInWindow(dates[emitted[j - 1]])
               /\ DateInWindow(ParseDate(out[j][4]))
        /\ \A q \in Positions : ~DateInWindow(dates[q]) => Count(q, emitted) = 0

\* A listing out of date order: two rows written, the later one with the
\* newer date, and a node without a parseable date examined between or
\* around them.
C17_Witness ==
    /\ ~SortedListing
    /\ Len(out) = 3
    /\ Parsed(NodeAt(emitted[1])).date < Parsed(NodeAt(emitted[2])).date
    /\ \E k \in 1..Len(examined) : ~HasDate(NodeAt(examined[k]))

(***************************************************************************)
(* C18.  Vocabulary: a page with nodes, none of which has a parseable date.*)
(***************************************************************************)
AllUnparseable(nodes) ==
    /\ nodes # <<>>
    /\ \A i \in 1..Len(nodes) : ~HasDate(nodes[i])

(***************************************************************************)
(* C18.  The step at the end of a page leaves the page loop exactly when   *)
(* the page has no record node; at the end of a page with nodes whose      *)
(* dates are all unparseable nothing was written for the page and the step *)
(* goes to the request of the next page; the crawl is never halted with    *)
(* such a page as the last one received.                                   *)
(***************************************************************************)
C18_UnparseablePageContinues ==
    [][ /\ (pc = "iter" /\ idx > Len(document)) =>
              /\ pc' = (IF document = <<>> THEN "flush" ELSE "fetch")
              /\ page' = (IF document = <<>> THEN page ELSE page + 1)
        /\ (pc = "iter" /\ idx > Len(document) /\ AllUnparseable(document)) =>
              /\ pc' = "fetch"
              /\ page' = page + 1
              /\ out' = out
              /\ err' = "none"
              /\ \A k \in 1..Len(emitted) : emitted[k][1] # page
        /\ Halted' => ~AllUnparseable(listing'[Len(listing')]) ]_vars

\* The first page had two nodes, neither with a parseable date: no row, two
\* warnings, and the second page was requested and received.
C18_Witness ==
    /\ Len(listing) >= 2
    /\ Len(listing[1]) = 2
    /\ AllUnparseable(listing[1])
    /\ Len(requests) >= 2
    /\ requests[2] = 2
    /\ Len(warnings) >= 2
    /\ \A k \in 1..Len(emitted) : emitted[k][1] # 1

(***************************************************************************)
(* C19.  Once the writer exists: the cutoff is 120 days before the instant *)
(* of the run, with that instant's time of day.  An examined node dated on *)
(* the calendar day of the cutoff was kept (its row written, or the run    *)
(* ended on the failure to write it) when the cutoff is exactly midnight;  *)
(* when the cutoff is later in its day, by a nanosecond or by hours, the   *)
(* node has no row, is the last node examined and the crawl has left the   *)
(* page loop.                                                              *)
(***************************************************************************)
C19_SameDayStoppedUnlessMidnight ==
    SinkOpen =>
        LET dates == DatesOf
            last == examined[Len(examined)]
        IN  /\ \E t \in NowSamples :
                   /\ one_month_ago.date = t.date - 120
                   /\ one_month_ago.secs = t.secs
                   /\ one_month_ago.frac = t.frac
            /\ \A k \in 1..Len(examined) :
                   (dates[examined[k]].ok
                        /\ dates[examined[k]].date = one_month_ago.date) =>
                       IF one_month_ago.secs = 0 /\ one_month_ago.frac = 0
                       THEN \/ Count(examined[k], emitted) = 1
                            \/ err = "write" /\ examined[k] = last
                       ELSE /\ Count(examined[k], emitted) = 0
                            /\ examined[k] = last
                            /\ pc \in {"flush", "done", "error"}
                            /\ err \in {"none", "flush"}

\* The cutoff is one nanosecond past midnight: a node dated on the cutoff's
\* day was examined after a row was written, it has no row and the run is
\* over.
C19_Witness ==
    /\ pc = "done"
    /\ one_month_ago.secs = 0
    /\ one_month_ago.frac = 1
    /\ Len(emitted) >= 1
    /\ Parsed(NodeAt(examined[Len(examined)])).ok
    /\ Parsed(NodeAt(examined[Len(examined)])).date = one_month_ago.date
    /\ Count(examined[Len(examined)], emitted) = 0

(***************************************************************************)
(* C20.  A step at a node without any date element warns with the empty    *)
(* date text and goes on to the next node of the page: no row, no error,   *)
(* the page loop is not left; and no data row ever has an empty date       *)
(* column.                                                                 *)
(***************************************************************************)
C20_NoDateElementSkipped ==
    [][ /\ (AtItem /\ document[idx].h5 = <<>>) =>
              /\ warnings' = Append(warnings, <<>>)
              /\ out' = out
              /\ emitted' = emitted
              /\ pc' = "iter"
              /\ idx' = idx + 1
              /\ page' = page
              /\ err' = "none"
        /\ \A j \in 2..Len(out') : out'[j][4] # <<>> ]_vars

\* A node without date element was examined, its warning has the empty
\* text, and a node examined after it has its row.
C20_Witness ==
    \E k \in 1..Len(examined) :
        /\ NodeAt(examined[k]).h5 = <<>>
        /\ \E w \in 1..Len(warnings) : warnings[w] = <<>>
        /\ Count(examined[k], emitted) = 0
        /\ \E j \in 1..Len(emitted) : Before(examined[k], emitted[j])

====
